---- MODULE Spec2Model ----
(***************************************************************************)
(* Model of src/apps.py: the Streamlit script of the AI Vision Assistant.  *)
(*                                                                         *)
(* One run of the script (lines 102-163) is one submission.  The run is    *)
(* cut at its two blocking network calls, the POST of analyze_image        *)
(* (line 36) and the chain invocation of get_*_response (lines 61, 80,     *)
(* 98); the environment chooses what each call answers.                    *)
(*                                                                         *)
(* Python values are records tagged by type:                               *)
(*   [t |-> "str",  s |-> text]        a str                               *)
(*   [t |-> "num",  r |-> repr text]   an int or float, by its repr        *)
(*   [t |-> "dict", pairs |-> <<[k |-> key, v |-> value], ...>>]           *)
(*   [t |-> "list", items |-> <<value, ...>>]                              *)
(*   [t |-> "None"]                                                        *)
(* Text is a TLA+ string.  The texts of the model hold no quote, no        *)
(* backslash and no non-printing character, so repr of a str is the text   *)
(* between single quotes.  The emoji of the title (line 104) and of the    *)
(* two disclaimers (lines 127, 132) are written as their Python escapes,   *)
(* since the module is ASCII.                                              *)
(***************************************************************************)
EXTENDS Integers, Sequences, FiniteSets, TLC

\* Longest tag list the image-analysis endpoint answers with.
MaxTags == 2

\* ------------------------------------------------------------------------
\* Python values
\* ------------------------------------------------------------------------
None == [t |-> "None"]
PyText(s) == [t |-> "str", s |-> s]
PyNum(r) == [t |-> "num", r |-> r]
PyDict(pairs) == [t |-> "dict", pairs |-> pairs]
PyList(items) == [t |-> "list", items |-> items]

\* isinstance(v, list), line 125
IsList(v) == v.t = "list"

\* sub in s, for two texts
Contains(s, sub) ==
    \E i \in 0..(Len(s) - Len(sub)) : SubSeq(s, i + 1, i + Len(sub)) = sub

\* s.startswith(pre)
StartsWith(s, pre) ==
    Len(pre) <= Len(s) /\ SubSeq(s, 1, Len(pre)) = pre

\* sep.join(parts), parts a sequence of texts
RECURSIVE StrJoin(_, _)
StrJoin(sep, parts) ==
    IF parts = <<>> THEN ""
    ELSE IF Len(parts) = 1 THEN parts[1]
    ELSE parts[1] \o sep \o StrJoin(sep, Tail(parts))

\* repr(v)
RECURSIVE PyRepr(_)
PyRepr(v) ==
    CASE v.t = "str" -> "'" \o v.s \o "'"
      [] v.t = "num" -> v.r
      [] v.t = "None" -> "None"
      [] v.t = "dict" ->
            "{" \o StrJoin(", ", [i \in 1..Len(v.pairs) |->
                    "'" \o v.pairs[i].k \o "': " \o PyRepr(v.pairs[i].v)]) \o "}"
      [] v.t = "list" ->
            "[" \o StrJoin(", ", [i \in 1..Len(v.items) |-> PyRepr(v.items[i])]) \o "]"

\* str(v): a str is itself, everything else is its repr
PyStr(v) == IF v.t = "str" THEN v.s ELSE PyRepr(v)

\* key in d
DictHas(d, key) == \E i \in 1..Len(d.pairs) : d.pairs[i].k = key

\* d[key], for a key of d
DictGet(d, key) ==
    d.pairs[CHOOSE i \in 1..Len(d.pairs) : d.pairs[i].k = key].v

\* The repr of an int is a sign and digits; the repr of a float holds a
\* point, an exponent (1e+16, 1e-07) or letters (inf, nan).
IsIntRepr(r) ==
    /\ Len(r) > 0
    /\ \A i \in 1..Len(r) :
          \/ SubSeq(r, i, i) \in {"0", "1", "2", "3", "4", "5", "6", "7", "8", "9"}
          \/ i = 1 /\ Len(r) > 1 /\ SubSeq(r, i, i) = "-"

\* type(v).__name__ as the join error of line 125 prints it
TypeName(v) ==
    CASE v.t = "str" -> "str"
      [] v.t = "num" -> IF IsIntRepr(v.r) THEN "int" ELSE "float"
      [] v.t = "dict" -> "dict"
      [] v.t = "list" -> "list"
      [] v.t = "None" -> "NoneType"

\* str(i) for a small index i
DigitText(i) ==
    CASE i = 0 -> "0" [] i = 1 -> "1" [] i = 2 -> "2" [] i = 3 -> "3"
      [] i = 4 -> "4" [] i = 5 -> "5" [] i = 6 -> "6" [] i = 7 -> "7"
      [] i = 8 -> "8" [] i = 9 -> "9"

\* ------------------------------------------------------------------------
\* Configuration, lines 15-29
\* ------------------------------------------------------------------------
MEDICAL_MODEL == "MEDICAL_MODEL"
GENERAL_MODEL == "GENERAL_MODEL"
PRODUCT_MODEL == "PRODUCT_MODEL"
GroqModel == "llama-3.3-70b-specdec"

\* The options of the selectbox, line 109
Categories == {"General", "Medical", "Product"}

\* ------------------------------------------------------------------------
\* What the environment can answer
\* ------------------------------------------------------------------------
NoFile == "None"
Files == {NoFile, "photo.jpg"}
Queries == {"", "What is this?"}

RashTag == PyDict(<<[k |-> "label", v |-> PyText("rash")],
                    [k |-> "score", v |-> PyNum("0.9")]>>)
ErythemaTag == PyDict(<<[k |-> "label", v |-> PyText("erythema")],
                        [k |-> "score", v |-> PyNum("0.7")]>>)
\* an item that carries no 'label'
BoxItem == PyDict(<<[k |-> "score", v |-> PyNum("0.5")]>>)
\* an item whose 'label' is a number
NumLabelItem == PyDict(<<[k |-> "label", v |-> PyNum("7")],
                         [k |-> "score", v |-> PyNum("0.4")]>>)
\* an item whose 'label' is a float written with an exponent
ExpLabelItem == PyDict(<<[k |-> "label", v |-> PyNum("1e+16")],
                         [k |-> "score", v |-> PyNum("0.3")]>>)
Items == {RashTag, ErythemaTag, BoxItem, NumLabelItem, ExpLabelItem}

TagLists == UNION {[1..n -> Items] : n \in 0..MaxTags}

BicycleDoc == PyDict(<<[k |-> "description", v |-> PyText("a red bicycle")]>>)
LoadingDoc == PyDict(<<[k |-> "error", v |-> PyText("Model is loading")]>>)

\* Response bodies: a JSON document, given as the value it decodes to, or a
\* text that is no JSON document.
JsonBody(doc) == [json |-> TRUE, doc |-> doc]
TextBody(text) == [json |-> FALSE, text |-> text]
Bodies == {JsonBody(PyList(l)) : l \in TagLists}
            \cup {JsonBody(BicycleDoc), JsonBody(PyText("a red bicycle")),
                  TextBody("Service Unavailable")}
ErrorBodies == {JsonBody(LoadingDoc), TextBody("Service Unavailable")}

\* What requests.post does, line 36: it raises, or it returns a response.
Raised(msg) == [kind |-> "raise", msg |-> msg]
Response(status, body) == [kind |-> "response", status_code |-> status, body |-> body]
TransportErrors == {"Read timed out.", "Connection refused"}
PostOutcomes ==
    {Raised(m) : m \in TransportErrors}
      \cup {Response(200, b) : b \in Bodies}
      \cup {Response(s, b) : s \in {404, 503}, b \in ErrorBodies}

\* What the chain invocation does, lines 61-63, 80-82, 98-100
Completions == {"", "It is a red bicycle.", "Possible contact dermatitis."}
GroqErrors == {"Rate limit reached"}
GenOutcomes ==
    {[kind |-> "raise", msg |-> m] : m \in GroqErrors}
      \cup {[kind |-> "text", text |-> c] : c \in Completions}

\* ------------------------------------------------------------------------
\* analyze_image, lines 31-44
\* ------------------------------------------------------------------------
\* The message of the error response.json() raises on a body that is no
\* JSON document and does not start like one.
JSONDecodeMessage == "Expecting value: line 1 column 1 (char 0)"

\* response.json() falling back to the text of the body
response_json_TextFallback(response) ==
    IF response.body.json
    THEN [ok |-> TRUE, val |-> response.body.doc]
    ELSE [ok |-> TRUE, val |-> PyText(response.body.text)]

\* response.json(), line 42: the decoded document, or the error raised
response_json(response) ==
    IF response.body.json
    THEN [ok |-> TRUE, val |-> response.body.doc]
    ELSE [ok |-> FALSE, msg |-> JSONDecodeMessage]

\* The except clause of line 43-44
AnalysisError(msg) == PyText("Analysis error: " \o msg)

\* The value returned on a status other than 200, line 42
NonOkResult == PyList(<<>>)

\* analyze_image with the except clause returning the fallback of line 42
analyze_image_SwallowsError(outcome) ==
    IF outcome.kind = "raise" THEN NonOkResult
    ELSE IF outcome.status_code = 200
         THEN LET decoded == response_json(outcome)
              IN  IF decoded.ok THEN decoded.val ELSE AnalysisError(decoded.msg)
         ELSE NonOkResult

\* analyze_image without the test of the status code
analyze_image_NoStatusCheck(outcome) ==
    IF outcome.kind = "raise" THEN AnalysisError(outcome.msg)
    ELSE LET decoded == response_json(outcome)
         IN  IF decoded.ok THEN decoded.val ELSE AnalysisError(decoded.msg)

\* analyze_image(image_bytes, model_name), given what requests.post did
analyze_image(outcome) ==
    IF outcome.kind = "raise" THEN AnalysisError(outcome.msg)
    ELSE IF outcome.status_code = 200
         THEN LET decoded == response_json(outcome)
              IN  IF decoded.ok THEN decoded.val ELSE AnalysisError(decoded.msg)
         ELSE NonOkResult

\* ------------------------------------------------------------------------
\* The category dispatch, lines 122-137
\* ------------------------------------------------------------------------
\* The dispatch with the Product branch calling the general model
ModelFor_ProductUsesGeneral(cat) ==
    CASE cat = "Medical" -> MEDICAL_MODEL
      [] OTHER -> GENERAL_MODEL

\* The second argument of analyze_image, lines 124, 130, 135
ModelFor(cat) ==
    CASE cat = "Medical" -> MEDICAL_MODEL
      [] cat = "Product" -> PRODUCT_MODEL
      [] OTHER -> GENERAL_MODEL

Ok(val) == [ok |-> TRUE, val |-> val]
Raise(exc) == [ok |-> FALSE, exc |-> exc]

\* Line 125 joining with "," in place of ", "
MedicalTags_CommaOnly(raw_tags) ==
    IF ~IsList(raw_tags) THEN [ok |-> TRUE, val |-> raw_tags]
    ELSE LET items == raw_tags.items
             n == Len(items)
         IN  IF \E i \in 1..n : ~DictHas(items[i], "label")
             THEN [ok |-> FALSE, exc |-> "'label'"]
             ELSE [ok |-> TRUE,
                   val |-> PyText(StrJoin(",", [i \in 1..n |->
                                PyStr(DictGet(items[i], "label"))]))]

\* Line 125: ", ".join([item["label"] for item in raw_tags])
\*             if isinstance(raw_tags, list) else raw_tags
\* The comprehension runs first and raises KeyError at the first item
\* without 'label'; then join raises TypeError at the first label that is
\* no str.  The items of the model are dicts.
MedicalTags(raw_tags) ==
    IF ~IsList(raw_tags) THEN Ok(raw_tags)
    ELSE LET items == raw_tags.items
             n == Len(items)
             unlabelled == {i \in 1..n : ~DictHas(items[i], "label")}
             labels == [i \in 1..n |-> DictGet(items[i], "label")]
             nonstr == {i \in 1..n : labels[i].t # "str"}
             first == CHOOSE i \in nonstr : \A j \in nonstr : i <= j
         IN  IF unlabelled # {} THEN Raise("'label'")
             ELSE IF nonstr # {}
                  THEN Raise("sequence item " \o DigitText(first - 1)
                             \o ": expected str instance, "
                             \o TypeName(labels[first]) \o " found")
                  ELSE Ok(PyText(StrJoin(", ", [i \in 1..n |-> labels[i].s])))

\* The first argument of get_*_response, lines 126, 131, 136
AnalysisArg(cat, result) ==
    IF cat = "Medical" THEN MedicalTags(result)
    ELSE Ok(PyText(PyStr(result)))

\* The disclaimers with the Medical one left empty
Disclaimer_MedicalEmpty(cat) ==
    CASE cat = "Product" -> "\\u2139\\ufe0f Price estimates are approximate"
      [] OTHER -> ""

\* The disclaimer, lines 127, 132, 137
Disclaimer(cat) ==
    CASE cat = "Medical" ->
            "\\u26a0\\ufe0f This is not medical advice - Consult a doctor for diagnosis"
      [] cat = "Product" -> "\\u2139\\ufe0f Price estimates are approximate"
      [] OTHER -> ""

\* ------------------------------------------------------------------------
\* The prompt templates, lines 48-59, 67-78, 86-96
\* ------------------------------------------------------------------------
\* A template is the text before its first slot, between its two slots and
\* after its second slot.
MedicalTemplate ==
    [pre |-> "\n    As a medical assistant, analyze these image tags: ",
     mid |-> "\n    For this question: ",
     post |-> "\n\n    Provide:\n    1. 3 possible conditions matching these symptoms\n    2. Recommended diagnostic tests\n    3. Urgency level (Emergency/Urgent/Routine)\n    4. Clear disclaimer\n    \n    Format: Concise bullet points in plain text\n    "]
ProductTemplate ==
    [pre |-> "\n    Analyze product features: ",
     mid |-> "\n    For query: ",
     post |-> "\n\n    Provide:\n    1. Product identification\n    2. Price estimate range (USD)\n    3. 3 fictional purchase options\n    4. Alternative suggestions\n    \n    Format: Simple text with line breaks\n    "]
GeneralTemplate ==
    [pre |-> "\n    Analyze image description: ",
     mid |-> "\n    For question: ",
     post |-> "\n\n    Provide:\n    1. Direct answer\n    2. 3 relevant facts\n    3. Related information\n    \n    Format: Short paragraphs in plain text\n    "]

\* The function the dispatch calls, lines 126, 131, 136
TemplateFor(cat) ==
    CASE cat = "Medical" -> MedicalTemplate
      [] cat = "Product" -> ProductTemplate
      [] OTHER -> GeneralTemplate

\* prompt.invoke({slot1: first, "query": query}): both slots formatted with
\* str()
FormatPrompt(template, first, query) ==
    template.pre \o PyStr(first) \o template.mid \o query \o template.post

\* The prompt get_*_response hands to groq_chat
ComposePrompt(cat, first, query) == FormatPrompt(TemplateFor(cat), first, query)

\* ------------------------------------------------------------------------
\* The page
\* ------------------------------------------------------------------------
Element(el, text) == [el |-> el, text |-> text]

\* Lines 104-105
PageHead ==
    <<Element("title", "\\U0001f5bc\\ufe0f AI Vision Assistant"),
      Element("subheader", "Upload Image + Select Analysis Type")>>

\* Lines 139-143
ResultBlock(response, disclaimer) ==
    <<Element("subheader", "Analysis Results"), Element("write", response)>>
      \o (IF disclaimer # "" THEN <<Element("warning", disclaimer)>> ELSE <<>>)

\* The handler of line 145 reached after the heading of line 139 was drawn
ErrorBlock_AfterHeading(msg) ==
    <<Element("subheader", "Analysis Results"),
      Element("error", "Analysis failed: " \o msg)>>

\* Line 146
ErrorBlock(msg) == <<Element("error", "Analysis failed: " \o msg)>>

Event(ev, target) == [ev |-> ev, target |-> target]

\* ------------------------------------------------------------------------
\* State
\* ------------------------------------------------------------------------
VARIABLES
    category,       \* the selectbox, line 108
    uploaded_file,  \* the file uploader, line 112: NoFile is None
    user_query,     \* the text input, line 114
    pc,             \* where the run of the script stands
    post,           \* what requests.post did in this run, line 36
    analysis,       \* raw_tags / analysis: what analyze_image returned
    arg,            \* tags / str(analysis): the first argument of get_*_response
    prompt,         \* the prompt handed to groq_chat
    gen,            \* what the chain invocation did in this run
    ui,             \* the elements on the page, in order
    calls,          \* the network calls of this run, started and ended
    prev            \* the inputs and the end of the run before this one

vars == <<category, uploaded_file, user_query, pc, post, analysis, arg,
          prompt, gen, ui, calls, prev>>

NotCalled == [kind |-> "none"]
Settled == {"Idle", "Displaying", "Failed"}

\* The page before any interaction: the default option, no file, no text.
Init ==
    /\ category = "General"
    /\ uploaded_file = NoFile
    /\ user_query = ""
    /\ pc = "Idle"
    /\ post = NotCalled
    /\ analysis = None
    /\ arg = None
    /\ prompt = ""
    /\ gen = NotCalled
    /\ ui = PageHead
    /\ calls = <<>>
    /\ prev = [category |-> "General", uploaded_file |-> NoFile,
               user_query |-> "", final |-> "Idle"]

\* Line 116 with "or" in place of "and"
Accepted_Either(f, q) == f # NoFile \/ q # ""

\* Line 116: if uploaded_file and user_query
Accepted(f, q) == f # NoFile /\ q # ""

\* An interaction reruns the script from the top with the widgets' values:
\* lines 104-118.  The page is drawn anew.
Submit(c, f, q) ==
    /\ pc \in Settled
    /\ category' = c
    /\ uploaded_file' = f
    /\ user_query' = q
    /\ prev' = [category |-> category, uploaded_file |-> uploaded_file,
                user_query |-> user_query, final |-> pc]
    /\ post' = NotCalled
    /\ analysis' = None
    /\ arg' = None
    /\ prompt' = ""
    /\ gen' = NotCalled
    /\ calls' = <<>>
    /\ IF Accepted(f, q)
       THEN /\ ui' = PageHead \o <<Element("image", f)>>
            /\ pc' = "Validating"
       ELSE /\ ui' = PageHead
            /\ pc' = "Idle"

\* Lines 122-124, 129-130, 134-135: the branch on the category calls
\* analyze_image, which posts the image, lines 36-41.
StartExtract ==
    /\ pc = "Validating"
    /\ calls' = Append(calls, Event("post_start", ModelFor(category)))
    /\ pc' = "Extracting"
    /\ UNCHANGED <<category, uploaded_file, user_query, post, analysis, arg,
                   prompt, gen, ui, prev>>

\* Lines 42-44: the POST is over and analyze_image returns.
PostDone(outcome) ==
    /\ pc = "Extracting"
    /\ post' = outcome
    /\ analysis' = analyze_image(outcome)
    /\ calls' = Append(calls, Event("post_end", ModelFor(category)))
    /\ pc' = "Composing"
    /\ UNCHANGED <<category, uploaded_file, user_query, arg, prompt, gen, ui, prev>>

\* Lines 125-126, 131, 136 up to the call of groq_chat; an exception of
\* line 125 goes to the handler of lines 145-146.
Compose ==
    /\ pc = "Composing"
    /\ LET a == AnalysisArg(category, analysis)
       IN  IF a.ok
           THEN /\ arg' = a.val
                /\ prompt' = ComposePrompt(category, a.val, user_query)
                /\ calls' = Append(calls, Event("gen_start", GroqModel))
                /\ pc' = "Generating"
                /\ ui' = ui
           ELSE /\ ui' = ui \o ErrorBlock(a.exc)
                /\ pc' = "Failed"
                /\ UNCHANGED <<arg, prompt, calls>>
    /\ UNCHANGED <<category, uploaded_file, user_query, post, analysis, gen, prev>>

\* The chain invocation is over: lines 127, 132, 137 and 139-143 when it
\* returned, lines 145-146 when it raised.
GenDone(outcome) ==
    /\ pc = "Generating"
    /\ gen' = outcome
    /\ calls' = Append(calls, Event("gen_end", GroqModel))
    /\ IF outcome.kind = "text"
       THEN /\ ui' = ui \o ResultBlock(outcome.text, Disclaimer(category))
            /\ pc' = "Displaying"
       ELSE /\ ui' = ui \o ErrorBlock(outcome.msg)
            /\ pc' = "Failed"
    /\ UNCHANGED <<category, uploaded_file, user_query, post, analysis, arg,
                   prompt, prev>>

Next ==
    \/ \E c \in Categories, f \in Files, q \in Queries : Submit(c, f, q)
    \/ StartExtract
    \/ \E o \in PostOutcomes : PostDone(o)
    \/ Compose
    \/ \E o \in GenOutcomes : GenDone(o)

Spec == Init /\ [][Next]_vars

\* ------------------------------------------------------------------------
\* Observations of a state
\* ------------------------------------------------------------------------
Count(el) == Cardinality({i \in 1..Len(ui) : ui[i].el = el})
Headings == Cardinality({i \in 1..Len(ui) :
                ui[i] = Element("subheader", "Analysis Results")})
CountEv(ev) == Cardinality({i \in 1..Len(calls) : calls[i].ev = ev})
GenRaised == gen.kind = "raise"

TypeOK ==
    /\ category \in Categories
    /\ uploaded_file \in Files
    /\ user_query \in Queries
    /\ pc \in {"Idle", "Validating", "Extracting", "Composing", "Generating",
               "Displaying", "Failed"}

\* A prompt was handed to the Response Generator in this run.
PromptSent == CountEv("gen_start") = 1
NoResultShown == Headings = 0 /\ Count("write") = 0
SameInputAgain ==
    /\ prev.category = category
    /\ prev.uploaded_file = uploaded_file
    /\ prev.user_query = user_query

\* ------------------------------------------------------------------------
\* C1  A submission ends in Failed only if the Response Generator call
\* raised: no failure before generation aborts the submission, whatever the
\* category and whatever the tag extraction answered.
\* ------------------------------------------------------------------------
C1_OnlyGeneratorAborts == pc = "Failed" => GenRaised

\* ------------------------------------------------------------------------
\* C2  When the POST raises with message m, analyze_image returns the text
\* "Analysis error: m", the submission goes on to the generation step with
\* that text verbatim in the prompt, and it fails only if the generator
\* raises; a prompt built from an error text always holds that text.
\* ------------------------------------------------------------------------
C2_TransportErrorShown ==
    /\ post.kind = "raise" =>
          /\ analysis.t = "str"
          /\ analysis.s = "Analysis error: " \o post.msg
          /\ pc \in {"Generating", "Displaying"} =>
                PromptSent /\ Contains(prompt, "Analysis error: " \o post.msg)
          /\ pc = "Failed" =>
                /\ GenRaised
                /\ Contains(prompt, "Analysis error: " \o post.msg)
          /\ pc = "Displaying" => gen.kind = "text"
    /\ (PromptSent /\ analysis.t = "str"
          /\ StartsWith(analysis.s, "Analysis error: ")) =>
          Contains(prompt, analysis.s)

C2_Witness ==
    /\ post.kind = "raise"
    /\ post.msg = "Read timed out."
    /\ category = "Medical"
    /\ pc = "Displaying"

\* ------------------------------------------------------------------------
\* C3  When the endpoint answers a status other than 200, analyze_image
\* returns the empty list, the tag extraction is called once, and the
\* submission reaches the generator with a prompt built from the empty
\* result; it fails only if the generator raises.
\* ------------------------------------------------------------------------
C3_NonOkIsEmpty ==
    (post.kind = "response" /\ post.status_code # 200) =>
        /\ analysis.t = "list"
        /\ analysis.items = <<>>
        /\ CountEv("post_start") = 1
        /\ CountEv("post_end") = 1
        /\ pc \in {"Composing", "Generating", "Displaying", "Failed"}
        /\ pc = "Failed" => GenRaised
        /\ pc # "Composing" =>
              /\ PromptSent
              /\ arg.t = "str"
              /\ arg.s = (IF category = "Medical" THEN "" ELSE "[]")
              /\ Contains(prompt,
                    IF category = "Medical" THEN "image tags: \n    For this question: "
                    ELSE IF category = "Product" THEN "product features: []\n"
                    ELSE "image description: []\n")

C3_Witness ==
    /\ post.kind = "response"
    /\ post.status_code = 503
    /\ pc = "Generating"
    /\ category = "Product"

\* ------------------------------------------------------------------------
\* C4  If the Response Generator call raises, the page ends with exactly
\* one failure message, no result block and no disclaimer; a resubmission
\* of the same input ends in Displaying with a complete result or in Failed
\* in the same way; no state shows a result block with a failure message.
\* ------------------------------------------------------------------------
C4_FailureShowsNoResult ==
    /\ GenRaised =>
          /\ pc = "Failed"
          /\ Count("error") = 1
          /\ ui[Len(ui)] = Element("error", "Analysis failed: " \o gen.msg)
          /\ NoResultShown
          /\ Count("warning") = 0
    /\ ~(Count("error") > 0 /\ ~NoResultShown)
    /\ (prev.final = "Failed" /\ SameInputAgain) =>
          /\ pc = "Displaying" =>
                Headings = 1 /\ Count("write") = 1 /\ Count("error") = 0
          /\ pc = "Failed" =>
                Count("error") = 1 /\ NoResultShown /\ Count("warning") = 0

C4_Witness ==
    /\ GenRaised
    /\ pc = "Failed"
    /\ prev.final = "Failed"
    /\ SameInputAgain
    /\ category = "Product"

\* ------------------------------------------------------------------------
\* C5  In the Medical category, when the endpoint returns a list of tags
\* that each carry a text label, the value passed into the composition is
\* the labels in the order returned, joined by ", ", without the scores:
\* the empty text for the empty list, "rash, erythema" for rash 0.9,
\* erythema 0.7.
\* ------------------------------------------------------------------------
IsLabelledTagList(doc) ==
    /\ doc.t = "list"
    /\ \A i \in 1..Len(doc.items) :
          \E j \in 1..Len(doc.items[i].pairs) :
              /\ doc.items[i].pairs[j].k = "label"
              /\ doc.items[i].pairs[j].v.t = "str"

LabelAt(doc, i) ==
    LET item == doc.items[i]
        j == CHOOSE k \in 1..Len(item.pairs) : item.pairs[k].k = "label"
    IN  item.pairs[j].v.s

\* where label i starts in the joined text, counted from 0
RECURSIVE LabelOffset(_, _)
LabelOffset(doc, i) ==
    IF i = 1 THEN 0
    ELSE LabelOffset(doc, i - 1) + Len(LabelAt(doc, i - 1)) + 2

C5_MedicalLabelsJoined ==
    (/\ category = "Medical"
     /\ post.kind = "response"
     /\ post.status_code = 200
     /\ post.body.json
     /\ IsLabelledTagList(post.body.doc)
     /\ pc \in {"Generating", "Displaying", "Failed"}) =>
        LET doc == post.body.doc
            n == Len(doc.items)
        IN  /\ PromptSent
            /\ arg.t = "str"
            /\ Len(arg.s) =
                  (IF n = 0 THEN 0 ELSE LabelOffset(doc, n) + Len(LabelAt(doc, n)))
            /\ \A i \in 1..n :
                  SubSeq(arg.s, LabelOffset(doc, i) + 1,
                         LabelOffset(doc, i) + Len(LabelAt(doc, i))) = LabelAt(doc, i)
            /\ \A i \in 2..n :
                  SubSeq(arg.s, LabelOffset(doc, i) - 1, LabelOffset(doc, i)) = ", "
            /\ doc.items = <<RashTag, ErythemaTag>> => arg.s = "rash, erythema"
            /\ doc.items = <<>> => arg.s = ""

C5_Witness ==
    /\ category = "Medical"
    /\ post.kind = "response"
    /\ post.status_code = 200
    /\ post.body.json
    /\ post.body.doc.t = "list"
    /\ post.body.doc.items = <<RashTag, ErythemaTag>>
    /\ pc = "Generating"
    /\ arg.t = "str"
    /\ arg.s = "rash, erythema"

\* ------------------------------------------------------------------------
\* C6  In Displaying the page shows one result block, whose content is the
\* generated text, and the disclaimer of the category: one warning holding
\* "not medical advice" for Medical, one holding "approximate" for Product,
\* none for General.  No state shows two disclaimers, or a disclaimer
\* without a result block.
\* ------------------------------------------------------------------------
Warnings == {i \in 1..Len(ui) : ui[i].el = "warning"}

C6_ResultAndDisclaimer ==
    /\ pc = "Displaying" =>
          /\ gen.kind = "text"
          /\ Headings = 1
          /\ Count("write") = 1
          /\ Count("error") = 0
          /\ \E i \in 1..(Len(ui) - 1) :
                /\ ui[i] = Element("subheader", "Analysis Results")
                /\ ui[i + 1] = Element("write", gen.text)
          /\ category = "General" => Warnings = {}
          /\ category = "Medical" =>
                /\ Cardinality(Warnings) = 1
                /\ \A i \in Warnings :
                      ui[i].text # "" /\ Contains(ui[i].text, "not medical advice")
          /\ category = "Product" =>
                /\ Cardinality(Warnings) = 1
                /\ \A i \in Warnings :
                      ui[i].text # "" /\ Contains(ui[i].text, "approximate")
    /\ Cardinality(Warnings) <= 1
    /\ Warnings # {} => (Headings = 1 /\ Count("write") = 1 /\ pc = "Displaying")

C6_Witness ==
    /\ pc = "Displaying"
    /\ category = "Medical"
    /\ gen.kind = "text"
    /\ gen.text = "Possible contact dermatitis."
    /\ Cardinality(Warnings) = 1

\* ------------------------------------------------------------------------
\* C7  While the image is missing or the query is empty, the orchestrator
\* is Idle in every category: no call is made to the tag extraction or to
\* the generator, and the page shows no result block, no disclaimer and no
\* failure message.
\* ------------------------------------------------------------------------
C7_IncompleteInputIsIdle ==
    (uploaded_file = NoFile \/ user_query = "") =>
        /\ pc = "Idle"
        /\ calls = <<>>
        /\ post.kind = "none"
        /\ gen.kind = "none"
        /\ NoResultShown
        /\ Count("warning") = 0
        /\ Count("error") = 0
        /\ Count("image") = 0

C7_Witness ==
    /\ uploaded_file # NoFile
    /\ user_query = ""
    /\ category = "Medical"
    /\ prev.final = "Displaying"
    /\ pc = "Idle"

\* ------------------------------------------------------------------------
\* C8  In each category, for every value analyze_image returns (a list,
\* an opaque document, the empty result, an error text) and every
\* non-empty query, the step from the analysis to the generator call does
\* not fail: a prompt is sent, and it is the template of the chosen
\* category with its two slots filled.  It starts and ends like that
\* template and like no other, holds the stringified analysis and the exact
\* query, and is as long as the template and the two texts together.
\* ------------------------------------------------------------------------
EndsWith(s, suf) ==
    Len(suf) <= Len(s) /\ SubSeq(s, Len(s) - Len(suf) + 1, Len(s)) = suf

OwnTemplate ==
    IF category = "Medical" THEN MedicalTemplate
    ELSE IF category = "Product" THEN ProductTemplate
    ELSE GeneralTemplate

\* The run is past the step that composes the prompt.
PastComposing == pc \in {"Generating", "Displaying", "Failed"}

C8_EveryValueComposed ==
    PastComposing =>
        /\ PromptSent
        /\ pc = "Failed" => GenRaised
        /\ LET own == OwnTemplate
               first == IF category = "Medical" /\ analysis.t = "list" THEN arg.s
                        ELSE PyStr(analysis)
           IN  /\ StartsWith(prompt, own.pre \o first \o own.mid)
               /\ EndsWith(prompt, own.mid \o user_query \o own.post)
               /\ Len(prompt) = Len(own.pre) + Len(first) + Len(own.mid)
                                   + Len(user_query) + Len(own.post)
               /\ \A other \in {MedicalTemplate, ProductTemplate, GeneralTemplate} \ {own} :
                     ~StartsWith(prompt, other.pre) /\ ~EndsWith(prompt, other.post)
               /\ Contains(prompt, user_query)
               /\ Contains(prompt, first)
               /\ user_query # ""
               /\ analysis = BicycleDoc =>
                     Contains(prompt, "{'description': 'a red bicycle'}")
               /\ (category # "Medical" /\ analysis.t = "list"
                     /\ analysis.items = <<RashTag>>) =>
                     Contains(prompt, "[{'label': 'rash', 'score': 0.9}]")

\* ------------------------------------------------------------------------
\* C9  An accepted submission moves through Validating, Extracting,
\* Composing, Generating, Displaying in this order, Failed ending it: one
\* tag-extraction call, to the endpoint model of the chosen category, then
\* at most one generator call, started after the tag extraction returned;
\* no call is repeated, and Displaying follows a generator call that
\* returned a text.
\* ------------------------------------------------------------------------
Moves ==
    {<<"Idle", "Validating">>, <<"Validating", "Extracting">>,
     <<"Extracting", "Composing">>, <<"Composing", "Generating">>,
     <<"Composing", "Failed">>, <<"Generating", "Displaying">>,
     <<"Generating", "Failed">>, <<"Displaying", "Validating">>,
     <<"Displaying", "Idle">>, <<"Failed", "Validating">>, <<"Failed", "Idle">>}

EndpointOf ==
    IF category = "Medical" THEN "MEDICAL_MODEL"
    ELSE IF category = "Product" THEN "PRODUCT_MODEL"
    ELSE "GENERAL_MODEL"

CallOrder ==
    <<Event("post_start", EndpointOf), Event("post_end", EndpointOf),
      Event("gen_start", "llama-3.3-70b-specdec"),
      Event("gen_end", "llama-3.3-70b-specdec")>>

CallsMatchState ==
    /\ Len(calls) <= 4
    /\ calls = SubSeq(CallOrder, 1, Len(calls))
    /\ pc \in {"Idle", "Validating"} => Len(calls) = 0
    /\ pc = "Extracting" => Len(calls) = 1
    /\ pc = "Composing" => Len(calls) = 2
    /\ pc = "Generating" => Len(calls) = 3
    /\ pc = "Displaying" => Len(calls) = 4 /\ gen.kind = "text"
    /\ pc = "Failed" => Len(calls) \in {2, 4}
    /\ (pc = "Failed" /\ Len(calls) = 4) => gen.kind = "raise"

OrderedStep ==
    /\ pc' # pc => <<pc, pc'>> \in Moves
    /\ (pc \in Settled /\ pc' = pc) => pc = "Idle"
    /\ pc \notin Settled =>
          /\ category' = category
          /\ Len(calls') >= Len(calls)
          /\ SubSeq(calls', 1, Len(calls)) = calls
    /\ CallsMatchState'

C9_FixedOrder == [][OrderedStep]_vars

C9_Witness ==
    /\ pc = "Displaying"
    /\ category = "Product"
    /\ Len(calls) = 4
    /\ prev.final = "Failed"

\* ------------------------------------------------------------------------
\* C10, as claimed  On a 200 answer analyze_image returns the response
\* body, a list body as the list and any other body, JSON or plain text,
\* as it is, and never the "Analysis error" text.
\* ------------------------------------------------------------------------
OkAnswer == post.kind = "response" /\ post.status_code = 200

C10_BodyAlwaysReturned ==
    OkAnswer =>
        /\ post.body.json => analysis = post.body.doc
        /\ ~post.body.json => (analysis.t = "str" /\ analysis.s = post.body.text)
        /\ ~(analysis.t = "str" /\ StartsWith(analysis.s, "Analysis error"))

\* ------------------------------------------------------------------------
\* C10, amended  On a 200 answer whose body is a JSON document
\* analyze_image returns the decoded document, a list as the list of tags
\* and anything else as it is, never the "Analysis error" text and never
\* the empty list in its place; on a 200 answer whose body is no JSON
\* document it returns "Analysis error: " followed by the decoder's message.
\* ------------------------------------------------------------------------
C10_DecodedBodyReturned ==
    OkAnswer =>
        /\ post.body.json =>
              /\ analysis = post.body.doc
              /\ IsList(analysis) <=> post.body.doc.t = "list"
              /\ ~(analysis.t = "str" /\ StartsWith(analysis.s, "Analysis error"))
        /\ ~post.body.json =>
              /\ analysis.t = "str"
              /\ analysis.s = "Analysis error: Expecting value: line 1 column 1 (char 0)"

C10_Witness ==
    /\ OkAnswer
    /\ ~post.body.json
    /\ post.body.text = "Service Unavailable"
    /\ analysis.t = "str"
    /\ StartsWith(analysis.s, "Analysis error: ")
    /\ pc = "Composing"

====
